---- MODULE Spec2Model ----
(***************************************************************************)
(* Model of the standfindr backend: the Flask application src/app.py with  *)
(* its Route / Landmark / Fare tables, and the two maintenance scripts     *)
(* src/insert_data.py and src/reset_database.py.                           *)
(*                                                                         *)
(* The store is the PostgreSQL database behind DATABASE_URL.  Each request *)
(* or script run works in a session of its own: its statements are applied *)
(* to a private transaction and reach the committed store only at commit.  *)
(* Statements run at the default isolation level (read committed): each    *)
(* statement sees the rows committed when it starts plus the session's own *)
(* changes, a delete waits for a row another open transaction has deleted, *)
(* and a foreign key is checked against the committed rows.                *)
(***************************************************************************)
EXTENDS Integers, Sequences, FiniteSets, TLC

VARIABLES
    db,         \* app.py:32/39  TRUE: db = SQLAlchemy(app); FALSE: db = None
    storeUp,    \* whether the database server answers
    committed,  \* the committed content of the three tables
    seq,        \* the id sequences of the three tables (next value)
    pc,         \* per worker: 0 idle, else the index of its next statement
    prog,       \* per worker: the handler or script it is running
    tx,         \* per worker: the open transaction of its session
    snap,       \* per worker: row ids seen by a delete that is waiting
    resp,       \* the outcome of the request or script run that ended last
    before,     \* the committed content when the latest operation began
    route_id,   \* per worker: sample_route.id of its run, 0 before the flush
    initial,    \* the committed content at process start
    lastSeed    \* route id returned by the last seed request, 0 once wiped

vars == <<db, storeUp, committed, seq, pc, prog, tx, snap, resp, before,
          route_id, initial, lastSeed>>

\* Workers that may run an operation at the same time.
Procs == {1, 2}

\* The largest route id the sequence hands out.
MaxRouteId == 4

\* The largest route id handed out while two workers run side by side.
MaxConcRouteId == 3

Tables == {"routes", "landmarks", "fares"}

----------------------------------------------------------------------------
(* Values *)

\* Python's None / JSON null.
None == "None"

\* A Python float, kept as a count of hundredths.
PyFloat(h) == [type |-> "float", hundredths |-> h]

\* Column type Numeric(10, 2): the value is stored as a decimal with two
\* fractional digits (the fares of the model are far inside its ten digits).
Numeric_10_2(v) == [type |-> "decimal", hundredths |-> v.hundredths]

\* Mutation of float: the fare is formatted as text, str(fare.estimated_fare).
FloatAsStr(d) == [type |-> "str", hundredths |-> d.hundredths]

\* float(fare.estimated_fare): a Decimal read from the column becomes a float.
float(d) == [type |-> "float", hundredths |-> d.hundredths]

\* jsonify of a numeric value: a float is a JSON number, a Decimal or a str
\* is a JSON string.
JsonNumber(v) ==
    IF v.type = "float" THEN [json |-> "number", hundredths |-> v.hundredths]
    ELSE [json |-> "string", hundredths |-> v.hundredths]

\* jsonify of an optional text column: None is null, text stays text.
JsonText(v) ==
    IF v = None THEN [json |-> "null", text |-> ""]
    ELSE [json |-> "string", text |-> v]

EmptyStore == [routes |-> {}, landmarks |-> {}, fares |-> {}]

Ids(rows) == {r.id : r \in rows}

----------------------------------------------------------------------------
(* Schema and fixture *)

RouteRow(i, s, e, v) ==
    [id |-> i, start_location |-> s, end_location |-> e, vehicle_type |-> v]

LandmarkRow(i, rid, d, img) ==
    [id |-> i, route_id |-> rid, description |-> d, image_url |-> img]

FareRow(i, rid, f) ==
    [id |-> i, route_id |-> rid, estimated_fare |-> Numeric_10_2(f)]

\* The sample route of insert_sample_data / insert_data.py.
sample_route(i) == RouteRow(i, "Sangre Grande", "Port of Spain", "Red Band Maxi")

\* The two sample landmarks, with ids l and l + 1.
landmarks(l, rid) ==
    { LandmarkRow(l, rid,
                  "Sangre Grande Maxi Stand (opposite the catholic church)",
                  "http://localhost:5000/static/landmark.jpg"),
      LandmarkRow(l + 1, rid, "Port of Spain drop-off at City Gate", None) }

\* The sample fare, estimated_fare = 15.00.
fare(f, rid) == FareRow(f, rid, PyFloat(1500))

\* Store contents the process may find at start: nothing, the rows of an
\* earlier seed run, or rows entered by hand.
InitStores ==
    { EmptyStore,
      [routes |-> {sample_route(1)}, landmarks |-> landmarks(1, 1),
       fares |-> {fare(1, 1)}],
      [routes |-> {RouteRow(1, "Arima", "Port of Spain", "Yellow Band Maxi")},
       landmarks |-> {LandmarkRow(1, 1, "Arima Dial", None)},
       fares |-> {FareRow(1, 1, PyFloat(800)), FareRow(2, 1, PyFloat(1000))}],
      [routes |-> {RouteRow(1, "Arima", "Sangre Grande", "Red Band Maxi")},
       landmarks |-> {}, fares |-> {}] }

InitSeq == [routes |-> 2, landmarks |-> 3, fares |-> 3]

----------------------------------------------------------------------------
(* Sessions and transactions *)

EmptyDel == [routes |-> {}, landmarks |-> {}, fares |-> {}]

\* A transaction: the ids of committed rows it has deleted, per table, and
\* the rows it has inserted (flushed) and not yet committed.
EmptyTx == [del |-> EmptyDel, ins |-> EmptyStore]

\* The store content with a transaction's changes applied.
Apply(store, t) ==
    [T \in Tables |-> {r \in store[T] : r.id \notin t.del[T]} \cup t.ins[T]]

\* db.session.commit(): the transaction's changes become the committed rows.
session_commit(store, t) == Apply(store, t)

\* Mutation of session_rollback: the statements had been sent in autocommit
\* mode, so nothing is left to undo.
RollbackKeepsChanges(store, t) == Apply(store, t)

\* db.session.rollback(), and the session's removal when the application
\* context ends: the transaction's changes are dropped.
session_rollback(store, t) == store

\* The rows of table T a statement of worker p sees: the committed rows it
\* has not deleted, and its own inserted rows.
Visible(p, T) == {r \in committed[T] : r.id \notin tx[p].del[T]} \cup tx[p].ins[T]

\* db.session.query(X).delete(): every row the statement sees is deleted.
query_delete(rows) == Ids(rows)

\* A committed row among ids is deleted by another worker's open
\* transaction: the statement has to wait for that transaction to end.
LockedByOther(p, T, ids) ==
    \E q \in Procs \ {p} : tx[q].del[T] \cap ids \cap Ids(committed[T]) # {}

\* Mutation of ForeignKeyViolated: the columns carry no constraint.
NoForeignKey(ls, fs, rids) == FALSE

\* db.ForeignKey('routes.id') on landmarks.route_id and fares.route_id: a
\* route cannot be deleted while a landmark or a fare row references it.
ForeignKeyViolated(ls, fs, rids) ==
    \/ \E l \in ls : l.route_id \in rids
    \/ \E f \in fs : f.route_id \in rids

----------------------------------------------------------------------------
(* Handlers and scripts as statement lists *)

\* Mutation of insert_sample_data: the three deletes are left out.
InsertWithoutWipe == <<"add_flush", "commit">>

\* POST /api/insert-sample-data, inside try / except Exception.
insert_sample_data ==
    <<"delete_fares", "delete_landmarks", "delete_routes", "add_flush", "commit">>

\* insert_data.py, the same statements with no exception handler.
insert_data ==
    <<"delete_fares", "delete_landmarks", "delete_routes", "add_flush", "commit">>

\* Mutation of reset_database: the final db.session.commit() is left out.
ResetWithoutCommit == <<"delete_fares", "delete_landmarks", "delete_routes">>

\* reset_database.py.
reset_database ==
    <<"delete_fares", "delete_landmarks", "delete_routes", "commit">>

Program(name) ==
    CASE name = "insert_sample_data" -> insert_sample_data
      [] name = "insert_data" -> insert_data
      [] name = "reset_database" -> reset_database
      [] OTHER -> << >>

Scripts == {"insert_data", "reset_database"}

\* The statement worker p is about to run ("end" past the last one).
Stmt(p) ==
    IF pc[p] >= 1 /\ pc[p] <= Len(Program(prog[p]))
    THEN Program(prog[p])[pc[p]] ELSE "end"

DeleteTable(stmt) ==
    CASE stmt = "delete_fares" -> "fares"
      [] stmt = "delete_landmarks" -> "landmarks"
      [] stmt = "delete_routes" -> "routes"
      [] OTHER -> "none"

----------------------------------------------------------------------------
(* Responses *)

\* Endpoints registered on the application: the database routes are defined
\* under "if db:" only.
url_map ==
    {"debug_raw_db", "debug_db", "debug_env", "health_check", "hello",
     "serve_static"}
    \cup (IF db THEN {"debug_routes", "insert_sample_data", "get_routes",
                      "get_route"}
          ELSE {})

\* The outcome of a request or a script run.  status is the HTTP status, or
\* "exit0" / "crash" for a script; content tells a JSON payload from Flask's
\* own error page, a script's printed lines and an uncaught traceback; error
\* is the exception, [type, dirty]: its class, and whether the session held
\* uncommitted changes when it was raised; up records whether the database
\* answered the operation.
Response(op, arg, up, status, content, error, body) ==
    [op |-> op, arg |-> arg, up |-> up, status |-> status,
     content |-> content, error |-> error, body |-> body]

NoArg == [id |-> 0, start |-> "", end |-> ""]

NoError == [type |-> "", dirty |-> FALSE]

NoResp == Response("none", NoArg, TRUE, "none", "none", NoError, "none")

\* Flask's answer for a URL no rule matches.
NotRouted(op, arg) ==
    Response(op, arg, storeUp, "404", "html", [type |-> "NotFound", dirty |-> FALSE],
             "none")

\* return jsonify({'error': str(e)}), 500
Error500(op, arg, e) ==
    Response(op, arg, e.type # "OperationalError", "500", "json", e, "none")

\* An exception no handler catches ends the script with a traceback.
Crash(op, e) ==
    Response(op, NoArg, e.type # "OperationalError", "crash", "traceback", e, "none")

\* Mutation of health_check_response: 'healthy' whenever db is set.
HealthIgnoringQuery(up) ==
    IF db THEN [status |-> "healthy", database |-> "connected", error |-> ""]
    ELSE [status |-> "degraded", database |-> "not configured", error |-> ""]

\* health_check: the payload, given whether SELECT 1 succeeds.
health_check_response(up) ==
    IF db
    THEN IF up
         THEN [status |-> "healthy", database |-> "connected", error |-> ""]
         ELSE [status |-> "degraded", database |-> "disconnected",
               error |-> "OperationalError"]
    ELSE [status |-> "degraded", database |-> "not configured", error |-> ""]

\* get_routes: the summary fields of every route.
get_routes_body(store) ==
    { [id |-> r.id, start_location |-> r.start_location,
       end_location |-> r.end_location, vehicle_type |-> r.vehicle_type]
      : r \in store.routes }

\* get_route: the route with its landmarks and fares, filtered by route_id.
get_route_body(store, id) ==
    LET route == CHOOSE r \in store.routes : r.id = id
    IN [route |-> [id |-> route.id, start_location |-> route.start_location,
                   end_location |-> route.end_location,
                   vehicle_type |-> route.vehicle_type],
        landmarks |-> { [id |-> l.id, description |-> l.description,
                         image_url |-> JsonText(l.image_url)]
                        : l \in {x \in store.landmarks : x.route_id = id} },
        fares |-> { [id |-> f.id,
                     estimated_fare |-> JsonNumber(float(f.estimated_fare))]
                    : f \in {x \in store.fares : x.route_id = id} }]

\* What the body of get_route raises: a failed query, or NotFound from
\* get_or_404.  Both are subclasses of Exception.
get_route_raises(store, up, id) ==
    IF ~up THEN "OperationalError"
    ELSE IF id \notin Ids(store.routes) THEN "NotFound"
    ELSE ""

\* get_route: try: ... except Exception as e: return {'error': str(e)}, 500
get_route_response(store, up, id) ==
    LET arg == [id |-> id, start |-> "", end |-> ""]
        e == get_route_raises(store, up, id)
    IN IF e # "" THEN Error500("get_route", arg, [type |-> e, dirty |-> FALSE])
       ELSE Response("get_route", arg, TRUE, "200", "json", NoError,
                     get_route_body(store, id))

----------------------------------------------------------------------------
(* Initial states *)

NoSnap == [on |-> FALSE, ids |-> {}]

Init ==
    /\ db \in BOOLEAN
    /\ storeUp \in BOOLEAN
    /\ committed \in InitStores
    /\ seq = InitSeq
    /\ pc = [p \in Procs |-> 0]
    /\ prog = [p \in Procs |-> "none"]
    /\ tx = [p \in Procs |-> EmptyTx]
    /\ snap = [p \in Procs |-> NoSnap]
    /\ resp = NoResp
    /\ before = committed
    /\ route_id = [p \in Procs |-> 0]
    /\ initial = committed
    /\ lastSeed = 0

----------------------------------------------------------------------------
(* Read requests: one handler each, run while the worker is idle *)

Answer(p, r) ==
    /\ resp' = r
    /\ before' = committed
    /\ UNCHANGED <<db, storeUp, committed, seq, pc, prog, tx, snap, route_id,
                   initial, lastSeed>>

\* GET /api/health
health_check(p) ==
    /\ pc[p] = 0
    /\ Answer(p, Response("health_check", NoArg, storeUp, "200", "json", NoError,
                          health_check_response(storeUp)))

\* GET /api/routes
get_routes(p) ==
    /\ pc[p] = 0
    /\ Answer(p, IF "get_routes" \notin url_map
                 THEN NotRouted("get_routes", NoArg)
                 ELSE IF ~storeUp
                      THEN Error500("get_routes", NoArg,
                                    [type |-> "OperationalError", dirty |-> FALSE])
                      ELSE Response("get_routes", NoArg, TRUE, "200", "json",
                                    NoError, get_routes_body(committed)))

\* GET /api/routes/<int:id>
get_route(p, id) ==
    /\ pc[p] = 0
    /\ Answer(p, IF "get_route" \notin url_map
                 THEN NotRouted("get_route", [id |-> id, start |-> "", end |-> ""])
                 ELSE get_route_response(committed, storeUp, id))

\* A search request, GET /search?start=&end=: the application registers no
\* rule for it.
search_routes(p, start, end) ==
    /\ pc[p] = 0
    /\ "search_routes" \notin url_map
    /\ Answer(p, NotRouted("search_routes",
                           [id |-> 0, start |-> start, end |-> end]))

----------------------------------------------------------------------------
(* Write operations, one statement at a time *)

\* The worker starts running the statements of handler or script name.
Begin(p, name) ==
    /\ pc' = [pc EXCEPT ![p] = 1]
    /\ prog' = [prog EXCEPT ![p] = name]
    /\ tx' = [tx EXCEPT ![p] = EmptyTx]
    /\ before' = committed
    /\ UNCHANGED <<db, storeUp, committed, seq, snap, resp, route_id, initial,
                   lastSeed>>

\* The operation of worker p ends with outcome r, leaving store as the
\* committed content; its session is closed.
Close(p, store, r) ==
    /\ committed' = store
    /\ tx' = [tx EXCEPT ![p] = EmptyTx]
    /\ snap' = [snap EXCEPT ![p] = NoSnap]
    /\ pc' = [pc EXCEPT ![p] = 0]
    /\ prog' = [prog EXCEPT ![p] = "none"]
    /\ route_id' = [route_id EXCEPT ![p] = 0]
    /\ resp' = r
    /\ UNCHANGED <<db, storeUp, before, initial>>

\* A statement of worker p raises e.  insert_sample_data catches it, rolls
\* back and answers 500; the scripts have no handler: the run ends in a
\* traceback and the closing session drops the transaction.
Raise(p, e) ==
    LET err == [type |-> e, dirty |-> tx[p] # EmptyTx]
    IN /\ Close(p, session_rollback(committed, tx[p]),
                IF prog[p] \in Scripts THEN Crash(prog[p], err)
                ELSE Error500(prog[p], NoArg, err))
       /\ UNCHANGED <<seq, lastSeed>>

\* What the handler returns, or the script's exit after its print lines.
Returned(p, rid) ==
    IF prog[p] \in Scripts
    THEN Response(prog[p], NoArg, TRUE, "exit0", "stdout", NoError, "none")
    ELSE Response(prog[p], NoArg, TRUE, "200", "json", NoError,
                  [message |-> "Sample data inserted successfully",
                   route_id |-> rid])

\* Worker p has run its statement, leaving transaction t.  After the last
\* statement the operation returns; what the session has not committed is
\* rolled back as the session closes.
Advance(p, t, rid) ==
    IF pc[p] = Len(Program(prog[p]))
    THEN /\ Close(p, session_rollback(committed, t), Returned(p, rid))
         /\ UNCHANGED lastSeed
    ELSE /\ tx' = [tx EXCEPT ![p] = t]
         /\ pc' = [pc EXCEPT ![p] = @ + 1]
         /\ snap' = [snap EXCEPT ![p] = NoSnap]
         /\ route_id' = [route_id EXCEPT ![p] = rid]
         /\ UNCHANGED <<db, storeUp, committed, prog, resp, before, initial,
                        lastSeed>>

\* POST /api/insert-sample-data
insert_sample_data_request(p) ==
    /\ pc[p] = 0
    /\ seq.routes <= MaxRouteId
    /\ IF "insert_sample_data" \in url_map
       THEN Begin(p, "insert_sample_data")
       ELSE Answer(p, NotRouted("insert_sample_data", NoArg))

\* python insert_data.py / python reset_database.py.  With db = None the
\* first db.session raises AttributeError.
run_script(p, name) ==
    /\ pc[p] = 0
    /\ name = "insert_data" => seq.routes <= MaxRouteId
    /\ IF db THEN Begin(p, name)
       ELSE Answer(p, Crash(name, [type |-> "AttributeError", dirty |-> FALSE]))

\* The effect of a delete on table T with the row ids it targets.
Deleted(t, T, ids) ==
    [t EXCEPT !.del[T] = @ \cup (ids \cap Ids(committed[T])),
              !.ins[T] = {r \in @ : r.id \notin ids}]

DeleteOutcome(p, T, ids) ==
    IF T = "routes"
       /\ ForeignKeyViolated(Visible(p, "landmarks"), Visible(p, "fares"), ids)
    THEN Raise(p, "IntegrityError")
    ELSE Advance(p, Deleted(tx[p], T, ids), route_id[p]) /\ UNCHANGED seq

\* db.session.query(Fare / Landmark / Route).delete(), no row of it locked.
delete_stmt(p) ==
    LET T == DeleteTable(Stmt(p))
        ids == IF T = "none" THEN {} ELSE query_delete(Visible(p, T))
    IN /\ T # "none"
       /\ ~snap[p].on
       /\ IF ~storeUp THEN Raise(p, "OperationalError")
          ELSE /\ ~LockedByOther(p, T, ids)
               /\ DeleteOutcome(p, T, ids)

\* The delete meets a row another open transaction has deleted: it keeps
\* the rows it saw and waits.
delete_wait(p) ==
    LET T == DeleteTable(Stmt(p))
        ids == IF T = "none" THEN {} ELSE query_delete(Visible(p, T))
    IN /\ T # "none"
       /\ ~snap[p].on
       /\ storeUp
       /\ LockedByOther(p, T, ids)
       /\ snap' = [snap EXCEPT ![p] = [on |-> TRUE, ids |-> ids]]
       /\ UNCHANGED <<db, storeUp, committed, seq, pc, prog, tx, resp, before,
                      route_id, initial, lastSeed>>

\* The other transaction has ended: the delete goes on with the rows it saw
\* that still exist (rows committed since are not seen by this statement).
delete_resume(p) ==
    LET T == DeleteTable(Stmt(p))
        ids == IF T = "none" THEN {} ELSE snap[p].ids \cap Ids(Visible(p, T))
    IN /\ T # "none"
       /\ snap[p].on
       /\ IF ~storeUp THEN Raise(p, "OperationalError")
          ELSE /\ ~LockedByOther(p, T, ids)
               /\ DeleteOutcome(p, T, ids)

\* db.session.add(sample_route); db.session.flush(): the route is inserted
\* in the transaction and gets its id from the sequence.
add_flush(p) ==
    /\ Stmt(p) = "add_flush"
    /\ IF ~storeUp THEN Raise(p, "OperationalError")
       ELSE /\ Advance(p, [tx[p] EXCEPT !.ins.routes = @ \cup {sample_route(seq.routes)}],
                       seq.routes)
            /\ seq' = [seq EXCEPT !.routes = @ + 1]

\* The transaction of worker p with the landmarks and the fare built from
\* sample_route.id added (db.session.add_all(landmarks); db.session.add(fare)),
\* as the commit flushes them.
WithChildren(p) ==
    IF route_id[p] = 0 THEN tx[p]
    ELSE [tx[p] EXCEPT !.ins.landmarks = @ \cup landmarks(seq.landmarks, route_id[p]),
                       !.ins.fares = @ \cup {fare(seq.fares, route_id[p])}]

\* db.session.commit(), the last statement of each handler and script.
commit(p) ==
    /\ Stmt(p) = "commit"
    /\ pc[p] = Len(Program(prog[p]))
    /\ IF ~storeUp THEN Raise(p, "OperationalError")
       ELSE IF route_id[p] # 0 /\ route_id[p] \notin Ids(Visible(p, "routes"))
       THEN Raise(p, "IntegrityError")
       ELSE /\ Close(p, session_commit(committed, WithChildren(p)),
                     Returned(p, route_id[p]))
            /\ seq' = IF route_id[p] = 0 THEN seq
                      ELSE [seq EXCEPT !.landmarks = @ + 2, !.fares = @ + 1]
            /\ lastSeed' = IF prog[p] = "insert_sample_data" THEN route_id[p] ELSE 0

----------------------------------------------------------------------------
(* The database server *)

store_fails == storeUp /\ storeUp' = FALSE /\
               UNCHANGED <<db, committed, seq, pc, prog, tx, snap, resp, before,
                           route_id, initial, lastSeed>>

store_recovers == ~storeUp /\ storeUp' = TRUE /\
                  UNCHANGED <<db, committed, seq, pc, prog, tx, snap, resp, before,
                              route_id, initial, lastSeed>>

----------------------------------------------------------------------------
(* Specifications *)

\* Ids a client may ask get_route for.
RouteIds == 0..(MaxRouteId + 1)

SearchInputs == {"", "sangre", "PORT"}

\* One worker: requests and script runs one after the other.
Next ==
    \/ health_check(1)
    \/ get_routes(1)
    \/ \E id \in RouteIds : get_route(1, id)
    \/ \E s, e \in SearchInputs : search_routes(1, s, e)
    \/ insert_sample_data_request(1)
    \/ \E name \in Scripts : run_script(1, name)
    \/ delete_stmt(1)
    \/ add_flush(1)
    \/ commit(1)
    \/ store_fails
    \/ store_recovers

Spec == Init /\ [][Next]_vars

\* Two workers whose seed and reset operations interleave statement by
\* statement.
concurrent_request(p) ==
    /\ seq.routes <= MaxConcRouteId
    /\ insert_sample_data_request(p)

concurrent_script(p, name) ==
    /\ name = "insert_data" => seq.routes <= MaxConcRouteId
    /\ run_script(p, name)

ConcNext ==
    \/ \E p \in Procs : concurrent_request(p)
    \/ \E p \in Procs, name \in Scripts : concurrent_script(p, name)
    \/ \E p \in Procs : delete_stmt(p)
    \/ \E p \in Procs : delete_wait(p)
    \/ \E p \in Procs : delete_resume(p)
    \/ \E p \in Procs : add_flush(p)
    \/ \E p \in Procs : commit(p)
    \/ store_fails
    \/ store_recovers

ConcSpec == Init /\ [][ConcNext]_vars

----------------------------------------------------------------------------
(* Properties *)

Idle == \A p \in Procs : pc[p] = 0

SeedOps == {"insert_sample_data", "insert_data"}

DataOps == {"get_routes", "get_route", "insert_sample_data", "insert_data",
            "reset_database"}

Succeeded == resp.status \in {"200", "exit0"}

\* The store holds the seeded rows and nothing else: one route Sangre Grande
\* -> Port of Spain by Red Band Maxi, two landmarks and one fare of 15.00,
\* each referencing that route.
SeededExactly(store) ==
    /\ Cardinality(store.routes) = 1
    /\ \A r \in store.routes :
          /\ r.start_location = "Sangre Grande"
          /\ r.end_location = "Port of Spain"
          /\ r.vehicle_type = "Red Band Maxi"
    /\ Cardinality(store.landmarks) = 2
    /\ Cardinality(store.fares) = 1
    /\ \A l \in store.landmarks : l.route_id \in Ids(store.routes)
    /\ \A f \in store.fares :
          f.route_id \in Ids(store.routes) /\ f.estimated_fare.hundredths = 1500

\* C1: whatever the store held, after a successful seed run (the n-th of any
\* number of runs) the store holds exactly the seeded rows, all referencing
\* the one route, whose id is the one the request returned; rows of earlier
\* runs do not accumulate.
C1_SeedRunLeavesExactlyTheFixture ==
    (Idle /\ resp.op \in SeedOps /\ Succeeded)
    => /\ SeededExactly(committed)
       /\ resp.op = "insert_sample_data"
          => Ids(committed.routes) = {resp.body.route_id}

\* A second successful seed run: the content it started from was itself the
\* result of a seed run of this behaviour.
C1_Witness ==
    /\ Idle /\ resp.op \in SeedOps /\ Succeeded
    /\ SeededExactly(before) /\ before # initial /\ committed # before

\* C2: a seed run is atomic.  While it runs the committed content is the
\* content before the call; if it fails at any statement the committed content
\* is still the content before the call; if it succeeds the store holds the
\* full fixture.
C2_SeedRunIsAtomic ==
    /\ (\E p \in Procs : prog[p] \in SeedOps) => committed = before
    /\ (Idle /\ resp.op \in SeedOps /\ ~Succeeded) => committed = before
    /\ (Idle /\ resp.op \in SeedOps /\ Succeeded) => SeededExactly(committed)

\* A seed request that failed after it had wiped rows, the rows still there.
C2_Witness ==
    /\ Idle /\ resp.op = "insert_sample_data" /\ resp.status = "500"
    /\ resp.error.dirty
    /\ before.routes # {} /\ before.fares # {}
    /\ committed = before

\* C3: in every committed store content every landmark and every fare
\* references a route of the store.
C3_NoOrphanRows ==
    /\ \A l \in committed.landmarks : l.route_id \in Ids(committed.routes)
    /\ \A f \in committed.fares : f.route_id \in Ids(committed.routes)

\* A delete of routes was refused because a committed fare or landmark still
\* referenced one of them.
C3_Witness ==
    /\ resp.error.type = "IntegrityError"
    /\ committed.routes # {} /\ committed.fares # {}

\* C4: after a successful reset the three tables are empty and the route
\* listing is empty.
C4_ResetEmptiesAllTables ==
    (Idle /\ resp.op = "reset_database" /\ resp.status = "exit0")
    => /\ Cardinality(committed.routes) = 0
       /\ Cardinality(committed.landmarks) = 0
       /\ Cardinality(committed.fares) = 0
       /\ get_routes_body(committed) = {}

\* A successful reset of a store that held rows in all three tables.
C4_Witness ==
    /\ Idle /\ resp.op = "reset_database" /\ resp.status = "exit0"
    /\ before.routes # {} /\ before.landmarks # {} /\ before.fares # {}
    /\ committed = EmptyStore

\* C5: get_route for an id that no route of the store has, the database
\* answering, ends in a 404 response.
C5_UnknownIdIsNotFound ==
    (Idle /\ resp.op = "get_route" /\ resp.up
          /\ resp.arg.id \notin Ids(committed.routes))
    => resp.status = "404"

\* get_route asked for the id the last seed request returned, no wipe since.
AskedForSeededRoute ==
    /\ Idle /\ resp.op = "get_route" /\ resp.up
    /\ lastSeed # 0 /\ resp.arg.id = lastSeed

\* C6: get_route with the id a seed request returned gives back the route's
\* fields, exactly the two landmarks (the absent image_url as null) and
\* exactly the one fare, 15.00 as the JSON number 15.0.
C6_GetRouteRoundTrip ==
    AskedForSeededRoute
    => /\ resp.status = "200"
       /\ resp.body.route =
            [id |-> lastSeed, start_location |-> "Sangre Grande",
             end_location |-> "Port of Spain", vehicle_type |-> "Red Band Maxi"]
       /\ Cardinality(resp.body.landmarks) = 2
       /\ {[description |-> l.description, image_url |-> l.image_url]
             : l \in resp.body.landmarks}
          = { [description |->
                 "Sangre Grande Maxi Stand (opposite the catholic church)",
               image_url |-> [json |-> "string",
                              text |-> "http://localhost:5000/static/landmark.jpg"]],
              [description |-> "Port of Spain drop-off at City Gate",
               image_url |-> [json |-> "null", text |-> ""]] }
       /\ Cardinality(resp.body.fares) = 1
       /\ {f.estimated_fare : f \in resp.body.fares}
          = {[json |-> "number", hundredths |-> 1500]}

C6_Witness == AskedForSeededRoute /\ resp.status = "200"

\* C7: with no database connection set up at start, or the database not
\* answering, every data operation ends in a JSON failure result with a
\* message, and the committed content is unchanged.
C7_UnavailableStoreIsStructuredFailure ==
    (Idle /\ resp.op \in DataOps /\ (~db \/ ~resp.up))
    => /\ resp.status = "500"
       /\ resp.content = "json"
       /\ resp.error.type # ""
       /\ committed = before

\* C8: the health check is always answered; it says 'healthy' exactly when a
\* connection was set up and the query succeeds, 'degraded' with the error
\* when the query fails, 'degraded' / 'not configured' with no connection;
\* it leaves the rows as they were.
C8_HealthReportsConnectionState ==
    (Idle /\ resp.op = "health_check")
    => /\ resp.status = "200" /\ resp.content = "json"
       /\ resp.body.status = "healthy" <=> (db /\ resp.up)
       /\ (db /\ resp.up) => resp.body.database = "connected"
       /\ (db /\ ~resp.up)
          => /\ resp.body.status = "degraded"
             /\ resp.body.database = "disconnected"
             /\ resp.body.error # ""
       /\ ~db => /\ resp.body.status = "degraded"
                 /\ resp.body.database = "not configured"
       /\ committed = before

\* A health check with a connection set up and the database not answering.
C8_Witness ==
    /\ Idle /\ resp.op = "health_check" /\ db /\ ~resp.up
    /\ resp.body.status = "degraded" /\ committed.routes # {}

\* The characters of the location names and search inputs of the model.
Chars(str) ==
    CASE str = "" -> << >>
      [] str = "sangre" -> <<"s", "a", "n", "g", "r", "e">>
      [] str = "PORT" -> <<"P", "O", "R", "T">>
      [] str = "Sangre Grande" ->
           <<"S", "a", "n", "g", "r", "e", " ", "G", "r", "a", "n", "d", "e">>
      [] str = "Port of Spain" ->
           <<"P", "o", "r", "t", " ", "o", "f", " ", "S", "p", "a", "i", "n">>
      [] str = "Arima" -> <<"A", "r", "i", "m", "a">>

LowerChar(c) ==
    CASE c = "A" -> "a" [] c = "G" -> "g" [] c = "O" -> "o" [] c = "P" -> "p"
      [] c = "R" -> "r" [] c = "S" -> "s" [] c = "T" -> "t" [] OTHER -> c

Lower(cs) == [i \in 1..Len(cs) |-> LowerChar(cs[i])]

\* Case-insensitive "contains"; the empty input matches every text.
ContainsIgnoringCase(text, input) ==
    LET t == Lower(Chars(text))
        n == Lower(Chars(input))
    IN \E i \in 0..(Len(t) - Len(n)) :
          \A j \in 1..Len(n) : t[i + j] = n[j]

\* C9: a search answers with exactly the stored routes whose start_location
\* contains start and whose end_location contains end, ignoring case, an
\* empty input filtering nothing.
C9_SearchReturnsSubstringMatches ==
    (Idle /\ resp.op = "search_routes" /\ db /\ resp.up)
    => /\ resp.status = "200"
       /\ resp.body
          = { [id |-> r.id, start_location |-> r.start_location,
               end_location |-> r.end_location, vehicle_type |-> r.vehicle_type]
              : r \in { x \in committed.routes :
                          /\ ContainsIgnoringCase(x.start_location, resp.arg.start)
                          /\ ContainsIgnoringCase(x.end_location, resp.arg.end) } }

\* C10: with seed and reset operations of two workers interleaved, the
\* committed content is at every moment the content found at start, empty,
\* or exactly one copy of the seed fixture.
C10_CommittedIsEmptyOrOneFixture ==
    \/ committed = initial
    \/ committed = EmptyStore
    \/ SeededExactly(committed)

====
